---------------------------- MODULE Spec2Model ----------------------------
(***************************************************************************)
(* Maintenance scripts of Graph_Digitizer_Java_Implementation:             *)
(*   scripts/fix_md_spacing.py          (FenceSpacingFixer)                *)
(*   scripts/fix_md_lint.py             (LintStyleFixer)                   *)
(*   .scripts/find_missing_javadoc.py   (JavadocCoverageScanner)           *)
(*   graph-digitizer-java/scripts/ingest_json_log.py  (LogEventViewer)     *)
(* Texts are sequences of one-character strings; every regular expression  *)
(* of the scripts is evaluated character by character.                     *)
(***************************************************************************)
EXTENDS Integers, Sequences, FiniteSets, TLC

VARIABLES
  tool,          \* which Markdown fixer is run over the tree: "spacing" | "lint"
  content,       \* content[i]: what the i-th Markdown file holds, or Unreadable
  bak,           \* bak[i]: what the i-th file's .bak sibling holds, or NoBak
  pc,            \* "idle" | "running" | "aborted" (uncaught exception)
  idx,           \* position of the for-loop in md_files
  patched,       \* the script's list `patched` (file indices)
  orig,          \* the loop body's local `orig` (last file read)
  text,          \* the loop body's local `text` (last transform result)
  stdout,        \* lines printed by the current / last run
  runs,          \* number of runs started
  edits,         \* number of edits made between runs
  bakAtStart,    \* history: bak when the current / last run started
  contentAtStart,\* history: content when the current / last run started
  prePatch,      \* history: prePatch[i] = Backup(content right before the first
                 \*          patch of file i) when no backup existed then; else NoBak
  everPatched,   \* history: set of files some run has patched
  quiet,         \* history: the previous run completed and nothing was edited since
  \* JavadocCoverageScanner
  tree,          \* sorted(root.rglob('*.java')): the text of each source file
  jpc,           \* "off" | "scanning" | "done"
  jidx,          \* position of the for-loop in the sorted file list
  missing,       \* the script's list `missing` (file indices)
  jout,          \* lines printed by the scanner
  \* LogEventViewer
  logExists,     \* path.exists()
  logLines,      \* the lines of the log file
  argLevel,      \* args.level (NoArg when the flag is not given)
  argLogger,     \* args.logger (NoArg when the flag is not given)
  lpc,           \* "off" | "start" | "reading" | "exited" | "crashed"
  lidx,          \* next line of the file iter_events reads
  count,         \* main's local `count`
  lout,          \* lines printed by the viewer
  exitCode       \* <<status>> once the process has ended, NoExit before

mdVars == <<tool, content, bak, pc, idx, patched, orig, text, stdout, runs,
            edits, bakAtStart, contentAtStart, prePatch, everPatched, quiet>>

javaVars == <<tree, jpc, jidx, missing, jout>>

logVars == <<logExists, logLines, argLevel, argLogger, lpc, lidx, count, lout,
             exitCode>>

vars == <<mdVars, javaVars, logVars>>

----------------------------------------------------------------------------
(* Bounds *)
MaxSpacingLen == 3      \* fragments per generated text, FenceSpacingFixer
MaxLintLen == 3         \* fragments per generated text, LintStyleFixer
MaxRuns == 2            \* runs of a fixer over the tree
MaxEdits == 1           \* edits between runs
MaxJavaLines == 3       \* generated lines of a source file, besides the padding
MaxLogLines == 3        \* lines of the log file

----------------------------------------------------------------------------
(* Characters and texts *)
NL == "\n"
BT == "BACKTICK"   \* the character U+0060 (not writable in a TLA+ string)
WhiteSpace == {" ", "\t", NL, "\r", "\f"}
Digits == {"0", "1", "2", "3", "4", "5", "6", "7", "8", "9"}
EmptyText == <<>>

\* a Markdown file: its decoded text, or a file read_text() cannot decode
File(t) == [readable |-> TRUE, text |-> t]
Unreadable == [readable |-> FALSE, text |-> EmptyText]
\* a .bak sibling: its text, or no such file
Backup(t) == [exists |-> TRUE, text |-> t]
NoBak == [exists |-> FALSE, text |-> EmptyText]

IsSpace(c) == c \in WhiteSpace

\* t[i .. i+Len(lit)-1] = lit
MatchAt(t, i, lit) ==
  /\ i >= 1
  /\ i + Len(lit) - 1 <= Len(t)
  /\ \A k \in 1..Len(lit) : t[i + k - 1] = lit[k]

RECURSIVE Flatten(_)
Flatten(frags) ==
  IF frags = <<>> THEN <<>> ELSE Head(frags) \o Flatten(Tail(frags))

RECURSIVE SeqsUpTo(_, _)
SeqsUpTo(S, n) ==
  IF n = 0 THEN {<<>>}
  ELSE LET shorter == SeqsUpTo(S, n - 1)
       IN  shorter \cup {Append(s, x) : s \in shorter, x \in S}

Fence == <<BT, BT, BT>>
FenceText == <<BT, BT, BT, "t", "e", "x", "t">>
CRLF == <<"\r", NL>>
SpacingFragments == {<<"a">>, <<NL>>, CRLF, Fence, <<"-", " ">>}
LintFragments ==
  {Fence, <<"t", "e", "x", "t">>, <<"<">>, <<">">>, CRLF,
   <<"h", "t", "t", "p", ":", "/", "/", "a">>,
   <<"h", "t", "t", "p", "s", ":", "/", "/", "a">>}

SpacingTexts == {Flatten(f) : f \in SeqsUpTo(SpacingFragments, MaxSpacingLen)}
LintTexts == {Flatten(f) : f \in SeqsUpTo(LintFragments, MaxLintLen)}

----------------------------------------------------------------------------
(* Path.read_text / Path.write_text (text mode, newline=None) *)

\* read_text: universal newlines, every \r\n and every lone \r is read as \n
RECURSIVE ReadFrom(_, _)
ReadFrom(raw, i) ==
  IF i > Len(raw) THEN <<>>
  ELSE IF raw[i] = "\r"
       THEN <<NL>> \o ReadFrom(raw, IF i < Len(raw) /\ raw[i + 1] = NL THEN i + 2 ELSE i + 1)
       ELSE <<raw[i]>> \o ReadFrom(raw, i + 1)
ReadText(raw) == ReadFrom(raw, 1)

\* write_text: every \n is written as os.linesep, which is \n on the POSIX
\* systems the scripts' #!/usr/bin/env line addresses
WriteText(t) == t

----------------------------------------------------------------------------
(* fix_md_spacing.py: the three substitutions *)

\* fence_start_re = ([^\n])\n(```)
fence_start_re(t, i) ==
  /\ i + 4 <= Len(t)
  /\ t[i] # NL
  /\ t[i + 1] = NL
  /\ MatchAt(t, i + 2, Fence)

\* fence_start_re.sub(r'\1\n\n\2', text), scanning from position i
RECURSIVE FenceStartSub(_, _)
FenceStartSub(t, i) ==
  IF i > Len(t) THEN <<>>
  ELSE IF fence_start_re(t, i)
       THEN <<t[i], NL, NL>> \o Fence \o FenceStartSub(t, i + 5)
       ELSE <<t[i]>> \o FenceStartSub(t, i + 1)

\* fence_end_re = ```\n([^\n`])
fence_end_re(t, i) ==
  /\ i + 4 <= Len(t)
  /\ MatchAt(t, i, Fence)
  /\ t[i + 3] = NL
  /\ t[i + 4] \notin {NL, BT}

\* fence_end_re.sub(r'```\n\n\1', text), scanning from position i
RECURSIVE FenceEndSub(_, _)
FenceEndSub(t, i) ==
  IF i > Len(t) THEN <<>>
  ELSE IF fence_end_re(t, i)
       THEN Fence \o <<NL, NL, t[i + 4]>> \o FenceEndSub(t, i + 5)
       ELSE <<t[i]>> \o FenceEndSub(t, i + 1)

\* the lookahead (?=(?:\s{0,3}[-\*]\s)|(?:\s{0,3}\d+\.\s)) at position p
ListLookahead(t, p) ==
  \E k \in 0..3 :
    /\ p + k <= Len(t)
    /\ \A q \in p..(p + k - 1) : IsSpace(t[q])
    /\ LET m == p + k
       IN  \/ /\ m + 1 <= Len(t)
              /\ t[m] \in {"-", "*"}
              /\ IsSpace(t[m + 1])
           \/ \E d \in 1..(Len(t) - m) :
                /\ \A q \in m..(m + d - 1) : t[q] \in Digits
                /\ m + d + 1 <= Len(t)
                /\ t[m + d] = "."
                /\ IsSpace(t[m + d + 1])

\* list_re = ([^\n])\n(?=...)
list_re(t, i) ==
  /\ i + 1 <= Len(t)
  /\ t[i] # NL
  /\ t[i + 1] = NL
  /\ ListLookahead(t, i + 2)

\* list_re.sub(r'\1\n\n', text), scanning from position i
RECURSIVE ListSub(_, _)
ListSub(t, i) ==
  IF i > Len(t) THEN <<>>
  ELSE IF list_re(t, i)
       THEN <<t[i], NL, NL>> \o ListSub(t, i + 2)
       ELSE <<t[i]>> \o ListSub(t, i + 1)

\* lines 26-30: the three substitutions, chained
SpacingFix(t) == ListSub(FenceEndSub(FenceStartSub(t, 1), 1), 1)

----------------------------------------------------------------------------
(* fix_md_lint.py: the two rewrites *)

\* text.replace('```text', '```'), scanning from position i
RECURSIVE ReplaceFenceText(_, _)
ReplaceFenceText(t, i) ==
  IF i > Len(t) THEN <<>>
  ELSE IF MatchAt(t, i, FenceText)
       THEN Fence \o ReplaceFenceText(t, i + Len(FenceText))
       ELSE <<t[i]>> \o ReplaceFenceText(t, i + 1)

Http == <<"h", "t", "t", "p">>
ColonSlashSlash == <<":", "/", "/">>

\* position of the first character of the URL body ([^>\s]+) for a match of
\* <https?:// starting at i, or 0 when that prefix does not match at i
UrlBodyStart(t, i) ==
  IF ~MatchAt(t, i, <<"<">> \o Http) THEN 0
  ELSE IF MatchAt(t, i + 5, <<"s">> \o ColonSlashSlash) THEN i + 9
  ELSE IF MatchAt(t, i + 5, ColonSlashSlash) THEN i + 8
  ELSE 0

\* first position at or after p whose character is '>' or whitespace (Len+1: none)
RECURSIVE UrlBodyEnd(_, _)
UrlBodyEnd(t, p) ==
  IF p > Len(t) THEN p
  ELSE IF t[p] = ">" \/ IsSpace(t[p]) THEN p
  ELSE UrlBodyEnd(t, p + 1)

\* url_re = <(https?://[^>\s]+)> matches at i: the position of the closing '>',
\* or 0 when there is no match at i
url_re(t, i) ==
  LET b == UrlBodyStart(t, i)
      e == IF b = 0 THEN 0 ELSE UrlBodyEnd(t, b)
  IN  IF b # 0 /\ e > b /\ e <= Len(t) /\ t[e] = ">" THEN e ELSE 0

\* url_re.sub(r'[\1](\1)', text), scanning from position i
RECURSIVE UrlSub(_, _)
UrlSub(t, i) ==
  IF i > Len(t) THEN <<>>
  ELSE LET e == url_re(t, i)
       IN  IF e # 0
           THEN LET url == SubSeq(t, i + 1, e - 1)
                IN  <<"[">> \o url \o <<"]", "(">> \o url \o <<")">>
                      \o UrlSub(t, e + 1)
           ELSE <<t[i]>> \o UrlSub(t, i + 1)

\* lines 21-22
LintFix(t) == UrlSub(ReplaceFenceText(t, 1), 1)

----------------------------------------------------------------------------
(* The Markdown tree and the two fixer scripts as loops over md_files *)

\* a command-line option: absent (None), or given with a string value
NoArg == [given |-> FALSE, value |-> <<>>]
Arg(v) == [given |-> TRUE, value |-> v]
\* main has not returned; a returned status n is <<n>>
NoExit == <<>>

\* the scanner is not run
JavaOff ==
  /\ tree = <<>>
  /\ jpc = "off"
  /\ jidx = 1
  /\ missing = <<>>
  /\ jout = <<>>

\* no Markdown fixer is run
MdOff ==
  /\ tool = "none"
  /\ content = <<>>
  /\ bak = <<>>
  /\ pc = "off"
  /\ idx = 1
  /\ patched = <<>>
  /\ orig = EmptyText
  /\ text = EmptyText
  /\ stdout = <<>>
  /\ runs = 0
  /\ edits = 0
  /\ bakAtStart = <<>>
  /\ contentAtStart = <<>>
  /\ prePatch = <<>>
  /\ everPatched = {}
  /\ quiet = FALSE

\* the log viewer is not run
LogOff ==
  /\ logExists = FALSE
  /\ logLines = <<>>
  /\ argLevel = NoArg
  /\ argLogger = NoArg
  /\ lpc = "off"
  /\ lidx = 1
  /\ count = 0
  /\ lout = <<>>
  /\ exitCode = NoExit

OldText == <<"o", "l", "d">>
PriorBackups == {NoBak, Backup(OldText)}
SiblingFiles == {Unreadable, File(EmptyText)}

\* md_files: one file drawn from `texts` (or unreadable), alone or after a
\* sibling file
MdTrees(texts) ==
  LET F == {File(t) : t \in texts} \cup {Unreadable}
  IN  {<<f>> : f \in F} \cup {<<g, f>> : g \in SiblingFiles, f \in F}

ToolTexts(tl) == IF tl = "spacing" THEN SpacingTexts ELSE LintTexts
ToolFragments(tl) == IF tl = "spacing" THEN SpacingFragments ELSE LintFragments

InitTool(tl) ==
  /\ tool = tl
  /\ content \in MdTrees(ToolTexts(tool))
  /\ bak \in [1..Len(content) -> PriorBackups]
  /\ pc = "idle"
  /\ idx = 1
  /\ patched = <<>>
  /\ orig = EmptyText
  /\ text = EmptyText
  /\ stdout = <<>>
  /\ runs = 0
  /\ edits = 0
  /\ bakAtStart = bak
  /\ contentAtStart = content
  /\ prePatch = [i \in 1..Len(content) |-> NoBak]
  /\ everPatched = {}
  /\ quiet = FALSE
  /\ JavaOff
  /\ LogOff

\* lines 11-14 of both scripts: md_files = list(root.rglob('*.md')); print; patched = []
StartRun ==
  /\ pc \in {"idle", "aborted"}
  /\ runs < MaxRuns
  /\ pc' = "running"
  /\ idx' = 1
  /\ patched' = <<>>
  /\ orig' = EmptyText
  /\ text' = EmptyText
  /\ stdout' = <<[line |-> "Found", n |-> Len(content)]>>
  /\ runs' = runs + 1
  /\ bakAtStart' = bak
  /\ contentAtStart' = content
  /\ UNCHANGED <<tool, content, bak, edits, prePatch, everPatched, quiet>>
  /\ UNCHANGED <<javaVars, logVars>>

\* history of the first patch of file i, which holds raw before the patch
RecordPatch(i, raw) ==
  /\ prePatch' = IF i \notin everPatched /\ ~bak[i].exists
                 THEN [prePatch EXCEPT ![i] = Backup(raw)]
                 ELSE prePatch
  /\ everPatched' = everPatched \cup {i}

\* fix_md_spacing.py lines 33-35: bak.write_text(orig) if not bak.exists()
SpacingBackup(b, o) == IF b.exists THEN b ELSE Backup(WriteText(o))

\* fix_md_spacing.py lines 22-38: one iteration of `for p in md_files`
SpacingStep ==
  /\ tool = "spacing"
  /\ pc = "running"
  /\ idx <= Len(content)
  /\ IF ~content[idx].readable
     THEN \* line 23: read_text raises UnicodeDecodeError, nothing catches it
          /\ pc' = "aborted"
          /\ stdout' = Append(stdout, [line |-> "Traceback", n |-> idx])
          /\ quiet' = FALSE
          /\ UNCHANGED <<content, bak, idx, patched, orig, text, prePatch,
                         everPatched>>
     ELSE LET o == ReadText(content[idx].text)
              t == SpacingFix(o)
          IN  /\ orig' = o
              /\ text' = t
              /\ idx' = idx + 1
              /\ IF t # o
                 THEN /\ bak' = [bak EXCEPT ![idx] = SpacingBackup(@, o)]
                      /\ content' = [content EXCEPT ![idx] = File(WriteText(t))]
                      /\ stdout' = Append(stdout, [line |-> "Patched spacing", n |-> idx])
                      /\ patched' = Append(patched, idx)
                      /\ RecordPatch(idx, content[idx].text)
                 ELSE UNCHANGED <<bak, content, stdout, patched, prePatch,
                                  everPatched>>
              /\ UNCHANGED <<pc, quiet>>
  /\ UNCHANGED <<tool, runs, edits, bakAtStart, contentAtStart>>
  /\ UNCHANGED <<javaVars, logVars>>

\* fix_md_lint.py lines 24-28: line 25 rewrites p (not bak) with orig when no
\* backup exists; line 28 writes orig to str(p) + '.bak' unconditionally
LintBackup(b, o) == Backup(WriteText(o))

\* fix_md_lint.py lines 15-31: one iteration of `for p in md_files`
LintStep ==
  /\ tool = "lint"
  /\ pc = "running"
  /\ idx <= Len(content)
  /\ IF ~content[idx].readable
     THEN \* lines 16-19: except Exception: continue
          /\ idx' = idx + 1
          /\ UNCHANGED <<content, bak, patched, orig, text, stdout, prePatch,
                         everPatched>>
     ELSE LET o == ReadText(content[idx].text)
              t == LintFix(o)
          IN  /\ orig' = o
              /\ text' = t
              /\ idx' = idx + 1
              /\ IF t # o
                 THEN /\ bak' = [bak EXCEPT ![idx] = LintBackup(@, o)]
                      /\ content' = [content EXCEPT ![idx] = File(WriteText(t))]
                      /\ stdout' = Append(stdout, [line |-> "Patched", n |-> idx])
                      /\ patched' = Append(patched, idx)
                      /\ RecordPatch(idx, content[idx].text)
                 ELSE UNCHANGED <<bak, content, stdout, patched, prePatch,
                                  everPatched>>
  /\ UNCHANGED <<tool, pc, quiet, runs, edits, bakAtStart, contentAtStart>>
  /\ UNCHANGED <<javaVars, logVars>>

\* the final print of both scripts (spacing line 40, lint line 32)
FinishRun ==
  /\ pc = "running"
  /\ idx > Len(content)
  /\ stdout' = Append(stdout, [line |-> "Done", n |-> Len(patched)])
  /\ pc' = "idle"
  /\ quiet' = TRUE
  /\ UNCHANGED <<tool, content, bak, idx, patched, orig, text, runs, edits,
                 bakAtStart, contentAtStart, prePatch, everPatched>>
  /\ UNCHANGED <<javaVars, logVars>>

\* between two runs somebody edits a Markdown file (appends to it)
EditFile ==
  /\ pc = "idle"
  /\ runs >= 1
  /\ edits < MaxEdits
  /\ \E i \in 1..Len(content), frag \in ToolFragments(tool) :
       /\ content[i].readable
       /\ content' = [content EXCEPT ![i] = File(@.text \o frag)]
  /\ edits' = edits + 1
  /\ quiet' = FALSE
  /\ UNCHANGED <<tool, bak, pc, idx, patched, orig, text, stdout, runs,
                 bakAtStart, contentAtStart, prePatch, everPatched>>
  /\ UNCHANGED <<javaVars, logVars>>

\* FenceSpacingFixer alone
InitSpacing == InitTool("spacing")
NextSpacing == StartRun \/ SpacingStep \/ FinishRun \/ EditFile
SpecSpacing == InitSpacing /\ [][NextSpacing]_vars

\* LintStyleFixer alone
InitLint == InitTool("lint")
NextLint == StartRun \/ LintStep \/ FinishRun \/ EditFile
SpecLint == InitLint /\ [][NextLint]_vars

\* either fixer
InitMd == \E tl \in {"spacing", "lint"} : InitTool(tl)
NextMd == StartRun \/ SpacingStep \/ LintStep \/ FinishRun \/ EditFile
SpecMd == InitMd /\ [][NextMd]_vars

----------------------------------------------------------------------------
(* Claims about the two Markdown fixers *)

Files == 1..Len(content)

\* C1: LintStyleFixer never overwrites an existing backup: a .bak that exists
\* when a run starts has the same content during and after that run.
C1_LintKeepsExistingBackup ==
  tool = "lint" =>
    \A i \in Files : bakAtStart[i].exists => bak[i] = bakAtStart[i]

\* C2: FenceSpacingFixer backup invariant: a patched file has a .bak; when no
\* backup existed before the first patch, the .bak holds the file's content
\* right before that first patch; and a .bak that exists when a run starts is
\* left as it is by that run (so no later run changes it).
C2_SpacingBackupInvariant ==
  tool = "spacing" =>
    \A i \in Files :
      /\ i \in everPatched => bak[i].exists
      /\ prePatch[i].exists => bak[i] = prePatch[i]
      /\ bakAtStart[i].exists => bak[i] = bakAtStart[i]

\* C3: FenceSpacingFixer is idempotent: the output of a pass is a fixed point of
\* the pass, so a run right after a completed run (no edit in between) patches
\* nothing.
C3_SpacingIdempotent ==
  tool = "spacing" =>
    /\ SpacingFix(text) = text
    /\ (quiet /\ pc = "running") => patched = <<>>

\* C4: LintStyleFixer is idempotent: the output of a pass is a fixed point of
\* the pass, so a run right after a completed run (no edit in between) patches
\* nothing.
C4_LintIdempotent ==
  tool = "lint" =>
    /\ LintFix(text) = text
    /\ (quiet /\ pc = "running") => patched = <<>>

\* positions where a line of t starts
LineStarts(t) == {j \in 1..Len(t) : j = 1 \/ t[j - 1] = NL}
\* the line starting at j is a fence marker line
IsFenceLine(t, j) == j \in LineStarts(t) /\ MatchAt(t, j, Fence)
FencesBefore(t, j) == Cardinality({k \in LineStarts(t) : k < j /\ IsFenceLine(t, k)})
IsOpeningFence(t, j) == IsFenceLine(t, j) /\ FencesBefore(t, j) % 2 = 0
IsClosingFence(t, j) == IsFenceLine(t, j) /\ FencesBefore(t, j) % 2 = 1
\* start of the line before the line starting at j (j a line start, j > 1)
PrevLineStart(t, j) == CHOOSE k \in LineStarts(t) :
                         k < j /\ \A m \in LineStarts(t) : m < j => m <= k
\* the line starting at k and ending before position e holds a non-space character
NonBlank(t, k, e) == \E q \in k..(e - 1) : ~IsSpace(t[q])
FollowsNonBlankLine(t, j) == j > 1 /\ NonBlank(t, PrevLineStart(t, j), j - 1)
\* a list item: up to 3 spaces, then - or * and a space, or digits and a dot
IsListItem(t, j) ==
  \E k \in 0..3 :
    /\ \A q \in j..(j + k - 1) : q <= Len(t) /\ t[q] = " "
    /\ \/ /\ j + k + 1 <= Len(t)
          /\ t[j + k] \in {"-", "*"}
          /\ t[j + k + 1] = " "
       \/ \E d \in 1..(Len(t) - j - k) :
            /\ \A q \in (j + k)..(j + k + d - 1) : t[q] \in Digits
            /\ j + k + d <= Len(t)
            /\ t[j + k + d] = "."
\* the three places where the specification inserts a blank line before line j
AllowedInsertions(t) ==
  {j \in LineStarts(t) \ {1} :
     \/ IsOpeningFence(t, j) /\ FollowsNonBlankLine(t, j)
     \/ /\ IsClosingFence(t, PrevLineStart(t, j))
        /\ t[j] \notin {NL, BT}
        /\ FollowsNonBlankLine(t, j)
     \/ IsListItem(t, j) /\ FollowsNonBlankLine(t, j)}
\* t with a newline inserted before every position of S
RECURSIVE InsertBlankLines(_, _, _)
InsertBlankLines(t, S, i) ==
  IF i > Len(t) THEN <<>>
  ELSE (IF i \in S THEN <<NL>> ELSE <<>>) \o <<t[i]>> \o InsertBlankLines(t, S, i + 1)

\* C9: FenceSpacingFixer's output differs from its input only by blank lines
\* inserted at the three specified places (before an opening fence after a
\* non-blank line, after a closing fence followed by a non-blank non-backtick
\* line, before a list item after a non-blank line).
C9_OnlySpecifiedInsertions ==
  tool = "spacing" =>
    \E S \in SUBSET AllowedInsertions(orig) : text = InsertBlankLines(orig, S, 1)

FixOf(tl, t) == IF tl = "spacing" THEN SpacingFix(t) ELSE LintFix(t)

\* C10: in both fixers an unreadable file is skipped without aborting the run:
\* no run aborts, and a completed run has processed every readable file of the
\* tree (patched it if its transform differs) and printed the summary.
C10_UnreadableSkipped ==
  /\ pc # "aborted"
  /\ (pc = "idle" /\ quiet) =>
       /\ stdout[Len(stdout)].line = "Done"
       /\ \A i \in Files :
            contentAtStart[i].readable =>
              LET o == ReadText(contentAtStart[i].text)
              IN  IF FixOf(tool, o) # o
                  THEN /\ content[i] = File(WriteText(FixOf(tool, o)))
                       /\ \E k \in 1..Len(patched) : patched[k] = i
                  ELSE content[i] = contentAtStart[i]

----------------------------------------------------------------------------
(* find_missing_javadoc.py *)

Lower == {"a", "b", "c", "d", "e", "f", "g", "h", "i", "j", "k", "l", "m",
          "n", "o", "p", "q", "r", "s", "t", "u", "v", "w", "x", "y", "z"}
Upper == {"A", "B", "C", "D", "E", "F", "G", "H", "I", "J", "K", "L", "M",
          "N", "O", "P", "Q", "R", "S", "T", "U", "V", "W", "X", "Y", "Z"}
\* \w
WordChars == Lower \cup Upper \cup Digits \cup {"_"}

\* line 11: the [-10:] slice
Window == 10

Public == <<"p", "u", "b", "l", "i", "c">>
TypeKeywords == {<<"c", "l", "a", "s", "s">>, <<"r", "e", "c", "o", "r", "d">>,
                 <<"e", "n", "u", "m">>,
                 <<"i", "n", "t", "e", "r", "f", "a", "c", "e">>}
JavadocOpen == <<"/", "*", "*">>

\* first position at or after i that holds no whitespace (\s* and \s+ are greedy)
RECURSIVE SkipSpace(_, _)
SkipSpace(s, i) ==
  IF i <= Len(s) /\ IsSpace(s[i]) THEN SkipSpace(s, i + 1) ELSE i

\* line 6: ^(?:\s*)public\s+(class|record|enum|interface)\s+\w+ (re.M) matches at i
decl_re(s, i) ==
  /\ i = 1 \/ s[i - 1] = NL
  /\ LET j == SkipSpace(s, i)
         k == SkipSpace(s, j + Len(Public))
     IN  /\ MatchAt(s, j, Public)
         /\ k > j + Len(Public)
         /\ \E kw \in TypeKeywords :
              /\ MatchAt(s, k, kw)
              /\ LET w == SkipSpace(s, k + Len(kw))
                 IN  /\ w > k + Len(kw)
                     /\ w <= Len(s)
                     /\ s[w] \in WordChars

\* lines 6-8: m.start() of re.search, as a 1-based position; 0 when m is None
DeclStart(s) ==
  LET M == {i \in 1..Len(s) : decl_re(s, i)}
  IN  IF M = {} THEN 0 ELSE CHOOSE i \in M : \A j \in M : i <= j

\* before.rstrip('\n')
RECURSIVE RStripNL(_)
RStripNL(t) ==
  IF t # <<>> /\ t[Len(t)] = NL THEN RStripNL(SubSeq(t, 1, Len(t) - 1)) ELSE t

\* t.split('\n')
RECURSIVE SplitNL(_)
SplitNL(t) ==
  LET N == {i \in 1..Len(t) : t[i] = NL}
  IN  IF N = {} THEN <<t>>
      ELSE LET i == CHOOSE x \in N : \A y \in N : x <= y
           IN  <<SubSeq(t, 1, i - 1)>> \o SplitNL(SubSeq(t, i + 1, Len(t)))

\* lines[-n:]
LastLines(lines, n) ==
  IF Len(lines) <= n THEN lines ELSE SubSeq(lines, Len(lines) - n + 1, Len(lines))

\* line.strip()
RECURSIVE Strip(_)
Strip(line) ==
  IF line = <<>> THEN line
  ELSE IF IsSpace(line[1]) THEN Strip(Tail(line))
  ELSE IF IsSpace(line[Len(line)]) THEN Strip(SubSeq(line, 1, Len(line) - 1))
  ELSE line

\* lit in line
Contains(line, lit) == \E i \in 1..Len(line) : MatchAt(line, i, lit)
\* line.startswith(lit)
StartsWith(line, lit) == MatchAt(line, 1, lit)

\* ScanBack with `break` also on a // comment line (line 19 without its test)
RECURSIVE ScanBack_SlashBreaks(_, _)
ScanBack_SlashBreaks(prev_lines, k) ==
  IF k = 0 THEN FALSE
  ELSE LET line == prev_lines[k]
           st == Strip(line)
       IN  IF Contains(line, JavadocOpen) THEN TRUE
           ELSE IF st = <<>> \/ StartsWith(st, <<"*">>) \/ StartsWith(st, <<"/", "*">>)
                THEN ScanBack_SlashBreaks(prev_lines, k - 1)
           ELSE FALSE

\* ScanBack that never breaks: any line is skipped until a /** is found
RECURSIVE ScanBack_NeverBreaks(_, _)
ScanBack_NeverBreaks(prev_lines, k) ==
  IF k = 0 THEN FALSE
  ELSE IF Contains(prev_lines[k], JavadocOpen) THEN TRUE
  ELSE ScanBack_NeverBreaks(prev_lines, k - 1)

\* lines 13-20: `for line in reversed(prev_lines)` from index k downwards; the
\* value of has_javadoc when the loop ends
RECURSIVE ScanBack(_, _)
ScanBack(prev_lines, k) ==
  IF k = 0 THEN FALSE
  ELSE LET line == prev_lines[k]
           st == Strip(line)
       IN  IF Contains(line, JavadocOpen) THEN TRUE
           ELSE IF st = <<>> \/ StartsWith(st, <<"*">>) \/ StartsWith(st, <<"/", "*">>)
                THEN ScanBack(prev_lines, k - 1)
           ELSE IF ~StartsWith(st, <<"/", "/">>) THEN FALSE
           ELSE ScanBack(prev_lines, k - 1)

\* lines 9-11: before = s[:start]; prev_lines = before.rstrip('\n').split('\n')[-10:]
PrevLines(s, start) ==
  LastLines(SplitNL(RStripNL(SubSeq(s, 1, start - 1))), Window)

\* lines 9-20
has_javadoc(s, start) ==
  LET prev_lines == PrevLines(s, start)
  IN  ScanBack(prev_lines, Len(prev_lines))

\* the lines source files are generated from
BlankLine == <<>>
StarLine == <<" ", "*", " ", "d">>
OpenerLine == <<"/", "*", "*", " ", "d">>
BlockLine == <<"/", "*", " ", "c", " ", "*", "/">>
SlashLine == <<"/", "/", " ", "c">>
CodeLine == <<"x", ";">>
ClassLine == <<"p", "u", "b", "l", "i", "c", " ", "c", "l", "a", "s", "s", " ", "A">>
EnumLine == <<" ", "p", "u", "b", "l", "i", "c", " ", "e", "n", "u", "m", " ", "B">>
JavaLines == {BlankLine, OpenerLine, BlockLine, SlashLine, CodeLine, ClassLine,
              EnumLine}

\* n copies of line
RECURSIVE Repeat(_, _)
Repeat(line, n) == IF n = 0 THEN <<>> ELSE <<line>> \o Repeat(line, n - 1)

\* the text of a file: every line followed by a newline
RECURSIVE JoinLines(_)
JoinLines(lines) ==
  IF lines = <<>> THEN <<>> ELSE Head(lines) \o <<NL>> \o JoinLines(Tail(lines))

\* runs of skippable lines around the length of the window
Pads == {Repeat(StarLine, Window - 1), Repeat(StarLine, Window),
         Repeat(BlankLine, Window)}

\* up to MaxJavaLines generated lines, optionally with a run of padding between
\* a head and a tail
JavaLineSeqs ==
  LET Short == SeqsUpTo(JavaLines, MaxJavaLines)
      Split == {p \in Short \X Short :
                  /\ p[1] # <<>>
                  /\ p[2] # <<>>
                  /\ Len(p[1]) + Len(p[2]) <= MaxJavaLines}
  IN  Short \cup {p[1] \o pad \o p[2] : p \in Split, pad \in Pads}

JavaSources == {JoinLines(ls) : ls \in JavaLineSeqs}

UndocumentedSource == JoinLines(<<CodeLine, ClassLine>>)

\* the sorted list of source files: one generated file, alone or beside another
JavaTrees ==
  {<<f>> : f \in JavaSources}
    \cup {<<UndocumentedSource, f>> : f \in JavaSources}

InitJavadoc ==
  /\ tree \in JavaTrees
  /\ jpc = "scanning"
  /\ jidx = 1
  /\ missing = <<>>
  /\ jout = <<>>
  /\ MdOff
  /\ LogOff

\* lines 4-22: one iteration of `for p in sorted(root.rglob('*.java'))`
ScanFile ==
  /\ jpc = "scanning"
  /\ jidx <= Len(tree)
  /\ LET s == tree[jidx]
         start == DeclStart(s)
     IN  missing' = IF start # 0 /\ ~has_javadoc(s, start)
                    THEN Append(missing, jidx)
                    ELSE missing
  /\ jidx' = jidx + 1
  /\ UNCHANGED <<tree, jpc, jout>>
  /\ UNCHANGED <<mdVars, logVars>>

\* lines 23-24: the list of paths and the count
PrintReport ==
  /\ jpc = "scanning"
  /\ jidx > Len(tree)
  /\ jout' = <<[line |-> "paths", paths |-> missing],
               [line |-> "MISSING_COUNT", paths |-> <<Len(missing)>>]>>
  /\ jpc' = "done"
  /\ UNCHANGED <<tree, jidx, missing>>
  /\ UNCHANGED <<mdVars, logVars>>

NextJavadoc == ScanFile \/ PrintReport

SpecJavadoc == InitJavadoc /\ [][NextJavadoc]_vars

----------------------------------------------------------------------------
(* Claims about the scanner, stated on the lines of a source file *)

\* the number of the line of s that holds position p
LineOf(s, p) == 1 + Cardinality({q \in 1..(p - 1) : s[q] = NL})
\* the lines of s on which a public type declaration (a match of the pattern of
\* line 6) has its `public`
DeclLines(s) ==
  {LineOf(s, SkipSpace(s, i)) : i \in {j \in 1..Len(s) : decl_re(s, j)}}
FirstDecl(s) == CHOOSE d \in DeclLines(s) : \A e \in DeclLines(s) : d <= e
\* the line holds a /** marker
HasMarker(line) == Contains(line, JavadocOpen)
\* blank, beginning with * or /*, or a // comment
SkippableLine(line) ==
  LET st == Strip(line)
  IN  \/ st = <<>>
      \/ StartsWith(st, <<"*">>)
      \/ StartsWith(st, <<"/", "*">>)
      \/ StartsWith(st, <<"/", "/">>)
\* the nearest line before line d that holds a /** marker or is not skippable
\* (0: there is none)
NearestNonSkippable(L, d) ==
  LET N == {q \in 1..(d - 1) : HasMarker(L[q]) \/ ~SkippableLine(L[q])}
  IN  IF N = {} THEN 0 ELSE CHOOSE q \in N : \A r \in N : r <= q
\* the nearest preceding non-skippable line of declaration d is not a /** opener
NotDocumented(L, d) ==
  LET q == NearestNonSkippable(L, d) IN q = 0 \/ ~HasMarker(L[q])
\* a /** marker within the Window lines before declaration d, with only
\* skippable lines between the marker and the declaration
DocumentedWithin(L, d) ==
  \E m \in 1..Window :
    /\ d - m >= 1
    /\ HasMarker(L[d - m])
    /\ \A q \in (d - m + 1)..(d - 1) : SkippableLine(L[q])
\* the printed report lists file i
Listed(i) == \E k \in 1..Len(jout[1].paths) : jout[1].paths[k] = i

\* C7 as stated: the report lists every source file with a public type
\* declaration (any of them) whose nearest preceding non-skippable line is not
\* a /** opener.
C7_ListsEveryUndocumentedDecl ==
  jpc = "done" =>
    \A i \in 1..Len(tree) :
      LET L == SplitNL(tree[i])
      IN  (\E d \in DeclLines(tree[i]) : NotDocumented(L, d)) => Listed(i)

\* C7 amended: the report lists every source file whose FIRST public type
\* declaration has a nearest preceding non-skippable line that is not a /**
\* opener (or has no such line).
C7_ListsUndocumentedFirstDecl ==
  jpc = "done" =>
    \A i \in 1..Len(tree) :
      LET L == SplitNL(tree[i])
      IN  (DeclLines(tree[i]) # {} /\ NotDocumented(L, FirstDecl(tree[i]))) => Listed(i)

\* C7 witness: a listed file whose first declaration follows a javadoc block
\* that a code line separates from it.
C7_Witness ==
  /\ jpc = "done"
  /\ \E i \in 1..Len(tree) :
       LET L == SplitNL(tree[i])
       IN  /\ DeclLines(tree[i]) # {}
           /\ LET d == FirstDecl(tree[i])
                  q == NearestNonSkippable(L, d)
              IN  /\ q > 1
                  /\ ~HasMarker(L[q])
                  /\ \E r \in 1..(q - 1) : HasMarker(L[r])
           /\ Listed(i)

\* C8: the report never lists a source file whose first public type
\* declaration is preceded, within the 10 lines before it and with only blank,
\* comment or *-prefixed lines in between, by a /** marker.
C8_NeverListsDocumented ==
  jpc = "done" =>
    \A i \in 1..Len(tree) :
      LET L == SplitNL(tree[i])
      IN  (DeclLines(tree[i]) # {} /\ DocumentedWithin(L, FirstDecl(tree[i]))) => ~Listed(i)

\* C8 witness: an unlisted file whose /** marker is exactly 10 lines before the
\* first declaration, with nine skippable lines in between.
C8_Witness ==
  /\ jpc = "done"
  /\ \E i \in 1..Len(tree) :
       LET L == SplitNL(tree[i])
       IN  /\ DeclLines(tree[i]) # {}
           /\ LET d == FirstDecl(tree[i])
              IN  /\ d > Window
                  /\ HasMarker(L[d - Window])
                  /\ \A q \in (d - Window + 1)..(d - 1) :
                       SkippableLine(L[q]) /\ ~HasMarker(L[q])
           /\ ~Listed(i)

----------------------------------------------------------------------------
(* ingest_json_log.py *)

\* a JSON / Python value: a string, or null / None
Str(v) == [some |-> TRUE, str |-> v]
None == [some |-> FALSE, str |-> <<>>]

LevelError == <<"E", "R", "R", "O", "R">>
LevelInfo == <<"I", "N", "F", "O">>
LoggerAB == <<"a", ".", "b">>
LoggerC == <<"c">>

\* what a line of the file is: blank after strip(), text json.loads rejects, or
\* a JSON object (its fields)
BlankLogLine == [kind |-> "blank", obj |-> <<>>]
MalformedLine == [kind |-> "malformed", obj |-> <<>>]
ObjectLine(o) == [kind |-> "object", obj |-> o]

FullError == [time |-> Str(<<"1">>), level |-> Str(LevelError),
              logger |-> Str(LoggerAB), message |-> Str(<<"x">>)]
FullInfo == [time |-> Str(<<"2">>), level |-> Str(LevelInfo),
             logger |-> Str(LoggerC), message |-> Str(<<"y">>)]
NoLevel == [time |-> Str(<<"3">>), logger |-> Str(LoggerAB), message |-> Str(<<"z">>)]
NoLogger == [time |-> Str(<<"4">>), level |-> Str(LevelError), message |-> Str(<<"w">>)]
NullLogger == [time |-> Str(<<"5">>), level |-> Str(LevelError), logger |-> None,
               message |-> Str(<<"v">>)]
OnlyLevel == [level |-> Str(LevelInfo)]

LogLineKinds ==
  {BlankLogLine, MalformedLine} \cup
  {ObjectLine(o) : o \in {FullError, FullInfo, NoLevel, NoLogger, NullLogger,
                          OnlyLevel}}

LevelArgs == {NoArg, Arg(LevelError)}
LoggerArgs == {NoArg, Arg(<<"a">>)}

\* `if args.x`: None and the empty string are false
Truthy(arg) == arg.given /\ arg.value # <<>>

\* event.get(key, default)
Get(event, key, default) == IF key \in DOMAIN event THEN event[key] ELSE default

\* str(v) as print shows it
Show(v) == IF v.some THEN v.str ELSE <<"N", "o", "n", "e">>

\* format(v, '>5') of a string: right-aligned in 5 columns
RECURSIVE RightAlign(_, _)
RightAlign(v, width) == IF Len(v) >= width THEN v ELSE RightAlign(<<" ">> \o v, width)

\* line 43: the f-string
FormatEvent(event) ==
  Show(Get(event, "time", None)) \o <<" ">>
    \o RightAlign(Get(event, "level", None).str, 5) \o <<" ">>
    \o Show(Get(event, "logger", None)) \o <<" ", "-", " ">>
    \o Show(Get(event, "message", None))

\* lines 39-43 raise for this event, unless line 39 filters it out first:
\* startswith on a logger that is no string (line 41, AttributeError), or the
\* format spec >5 applied to None (line 43, TypeError)
Raises(event) ==
  /\ ~(Truthy(argLevel) /\ Get(event, "level", None) # Str(argLevel.value))
  /\ \/ Truthy(argLogger) /\ ~Get(event, "logger", Str(<<>>)).some
     \/ /\ ~(Truthy(argLogger)
              /\ ~StartsWith(Get(event, "logger", Str(<<>>)).str, argLogger.value))
        /\ ~Get(event, "level", None).some

\* lines 39-42: the event is filtered out
FilteredOut(event) ==
  \/ Truthy(argLevel) /\ Get(event, "level", None) # Str(argLevel.value)
  \/ Truthy(argLogger)
       /\ ~StartsWith(Get(event, "logger", Str(<<>>)).str, argLogger.value)

InitLog ==
  /\ logExists \in BOOLEAN
  /\ logLines \in (IF logExists THEN SeqsUpTo(LogLineKinds, MaxLogLines) ELSE {<<>>})
  /\ argLevel \in LevelArgs
  /\ argLogger \in LoggerArgs
  /\ lpc = "start"
  /\ lidx = 1
  /\ count = 0
  /\ lout = <<>>
  /\ exitCode = NoExit
  /\ MdOff
  /\ JavaOff

\* lines 32-37: parse_args, the existence test, count = 0
ViewerStart ==
  /\ lpc = "start"
  /\ IF ~logExists
     THEN /\ lout' = <<[line |-> "Log file not found", text |-> <<>>, src |-> 0]>>
          /\ exitCode' = <<1>>
          /\ lpc' = "exited"
     ELSE /\ lpc' = "reading"
          /\ UNCHANGED <<lout, exitCode>>
  /\ count' = 0
  /\ UNCHANGED <<logExists, logLines, argLevel, argLogger, lidx>>
  /\ UNCHANGED <<mdVars, javaVars>>

\* lines 22-29 and 38-44: iter_events reads one line of the file and, when it
\* yields an event, one iteration of main's loop body runs
ViewerLine ==
  /\ lpc = "reading"
  /\ lidx <= Len(logLines)
  /\ LET line == logLines[lidx]
     IN  IF line.kind \in {"blank", "malformed"}
         THEN \* lines 24-25 and 28-29: continue
              UNCHANGED <<lpc, count, lout, exitCode>>
         ELSE IF Raises(line.obj)
         THEN \* an exception nothing catches: traceback, exit status 1
              /\ lpc' = "crashed"
              /\ exitCode' = <<1>>
              /\ lout' = Append(lout, [line |-> "Traceback", text |-> <<>>, src |-> lidx])
              /\ UNCHANGED count
         ELSE IF FilteredOut(line.obj)
         THEN UNCHANGED <<lpc, count, lout, exitCode>>
         ELSE /\ lout' = Append(lout, [line |-> "event", text |-> FormatEvent(line.obj),
                                       src |-> lidx])
              /\ count' = count + 1
              /\ UNCHANGED <<lpc, exitCode>>
  /\ lidx' = lidx + 1
  /\ UNCHANGED <<logExists, logLines, argLevel, argLogger>>
  /\ UNCHANGED <<mdVars, javaVars>>

\* lines 45-46: the summary and return 0
ViewerFinish ==
  /\ lpc = "reading"
  /\ lidx > Len(logLines)
  /\ lout' = Append(lout, [line |-> "Displayed", text |-> <<>>, src |-> count])
  /\ exitCode' = <<0>>
  /\ lpc' = "exited"
  /\ UNCHANGED <<logExists, logLines, argLevel, argLogger, lidx, count>>
  /\ UNCHANGED <<mdVars, javaVars>>

NextLog == ViewerStart \/ ViewerLine \/ ViewerFinish

SpecLog == InitLog /\ [][NextLog]_vars

----------------------------------------------------------------------------
(* Claims about the log viewer *)

Ended == lpc \in {"exited", "crashed"}

\* C5: a missing log file is the only fatal condition: the run ends with exit
\* code 1 and only the not-found message iff the path does not exist; for an
\* existing file, whatever its lines hold, the run does not abort, prints the
\* summary line last and returns 0.
C5_OnlyMissingFileIsFatal ==
  /\ lpc # "crashed"
  /\ Ended =>
       IF logExists
       THEN exitCode = <<0>> /\ lout[Len(lout)].line = "Displayed"
       ELSE exitCode = <<1>> /\ lout = <<[line |-> "Log file not found", text |-> <<>>,
                                      src |-> 0]>>

\* the event passes the filters as the specification states them
Passes(event) ==
  /\ ~argLevel.given \/ Get(event, "level", None) = Str(argLevel.value)
  /\ ~argLogger.given
       \/ LET lg == Get(event, "logger", None)
          IN  lg.some /\ StartsWith(lg.str, argLogger.value)
\* the lines of the file that are events passing the filters, in file order
RECURSIVE PassingLines(_)
PassingLines(n) ==
  IF n = 0 THEN <<>>
  ELSE PassingLines(n - 1) \o
       (IF logLines[n].kind = "object" /\ Passes(logLines[n].obj) THEN <<n>> ELSE <<>>)
\* the file lines of the event lines printed, in print order
RECURSIVE ShownLines(_)
ShownLines(n) ==
  IF n = 0 THEN <<>>
  ELSE ShownLines(n - 1) \o (IF lout[n].line = "event" THEN <<lout[n].src>> ELSE <<>>)

\* C6: for an existing file the viewer prints, in file order, exactly one
\* formatted line for each line that is a JSON event passing the filters;
\* blank and unparseable lines print nothing and do not affect later lines;
\* the final `Displayed <n> events` count is the number of event lines printed.
C6_PrintsExactlyPassingEvents ==
  (Ended /\ logExists) =>
    /\ ShownLines(Len(lout)) = PassingLines(Len(logLines))
    /\ lout[Len(lout)] = [line |-> "Displayed", text |-> <<>>,
                          src |-> Len(PassingLines(Len(logLines)))]

=============================================================================
